---- MODULE Spec2Model ----
(***************************************************************************)
(* Model of the DeStorage NEAR contract (contract/src/lib.rs): the tables  *)
(* users, folders_v2, files, shared_docs and shared_doc_of_user, and the   *)
(* public mutating calls sign_up, create_folder_v2, create_file_v2,        *)
(* share_file_v2, share_folder_v2, remove_file_v2 and remove_folder_v2.    *)
(* Every call runs to completion; a failed assert (or a get_root walk that *)
(* spins until the gas budget is exhausted) aborts the call and discards   *)
(* all of its writes, so a failing call leaves every table unchanged.      *)
(***************************************************************************)
EXTENDS FiniteSets, Integers, Sequences, TLC

\* Signer account ids that may call the contract.
Accounts == {"alice", "bob"}
\* Three signers, for grants of one owner to two different grantees.
Accounts3 == Accounts \cup {"carol"}
\* Caller-supplied folder ids; "bob" may be used as a folder id before bob
\* registers, and "" is a legal String id.
FolderIdIn == {"f1", "f2", "bob", ""}
\* Caller-supplied file ids; "f1" is also usable as a folder id.
FileIdIn == {"file1", "f1"}
Ids == Accounts3 \cup FolderIdIn
\* Option<u8> None (no u8 is negative).
NoType == -1
\* Bound on the number of calls of a behaviour.
MaxCalls == 4
\* Longer behaviours, for traces that need five calls.
MaxCallsLong == 5
\* Option<u8> folder_type inputs.
TypeIn == {NoType, 1, 2}
\* Option<String> password inputs.
PasswordIn == {"pw"}
\* u8 permission inputs (1 = read, 2 = write).
PermIn == {1, 2}

\* UnorderedMap::get(k).is_some(), insert(k, v) and remove(k).
Has(m, k) == k \in DOMAIN m
Put(m, k, v) == [x \in DOMAIN m \cup {k} |-> IF x = k THEN v ELSE m[x]]
Del(m, k) == [x \in DOMAIN m \ {k} |-> m[x]]

\* Option<FolderV2> as a set holding at most one folder.
None == {}
The(o) == CHOOSE x \in o : TRUE

\* set_storage: the raw storage written by the UnorderedSet<String> values of
\* shared_doc_of_user, per storage prefix: the element_index LookupMap
\* (prefix + 'i') and the elements Vector (prefix + 'e').
VARIABLES users, folders, files, shared_docs, shared_doc_of_user, set_storage,
          lastOp, calls

vars == <<users, folders, files, shared_docs, shared_doc_of_user, set_storage,
          lastOp, calls>>

\* FolderV2 without name / created_at, which no call reads.
FolderV2(parent, ftype, fpw, by) ==
  [parent |-> parent, children |-> <<>>, files |-> <<>>,
   folder_type |-> ftype, folder_password |-> fpw, created_by |-> by]

\* The share-doc key format!("{}_{}_{}", owner, grantee, target).
ShareDocId(owner, grantee, target) == owner \o "_" \o grantee \o "_" \o target

\* Option<usize> position of the first occurrence of x in s (0 = None).
Position(s, x) ==
  IF \E i \in 1..Len(s) : s[i] = x
  THEN CHOOSE i \in 1..Len(s) : s[i] = x /\ \A j \in 1..(i-1) : s[j] # x
  ELSE 0

\* Vec::remove(i)
RemoveAt(s, i) == SubSeq(s, 1, i - 1) \o SubSeq(s, i + 1, Len(s))

\* Budget after which the parent walk is known to be spinning: a walk that
\* has not reached a self-loop after visiting every id is in a cycle or on
\* the None arm, and never leaves the while loop.
WalkFuel == Cardinality(Ids) + 1

\* get_root whose walk records the self-loop id itself as the result.
RECURSIVE GetRootWalk_SelfLoopResult(_, _, _, _, _, _)
GetRootWalk_SelfLoopResult(fs, current, parent, result, steps, fuel) ==
  IF current = parent
  THEN [loops |-> FALSE, result |-> result, steps |-> steps]
  ELSE IF fuel = 0 \/ ~Has(fs, parent)
       THEN [loops |-> TRUE, result |-> result, steps |-> steps]
       ELSE LET newCurrent == parent
                newParent == fs[parent].parent
            IN GetRootWalk_SelfLoopResult(fs, newCurrent, newParent,
                           IF newCurrent = newParent THEN newCurrent ELSE result,
                           steps + 1, fuel - 1)

\* The while loop of get_root: state (current_id, parent_id, result).
RECURSIVE GetRootWalk(_, _, _, _, _, _)
GetRootWalk(fs, current, parent, result, steps, fuel) ==
  IF current = parent
  THEN [loops |-> FALSE, result |-> result, steps |-> steps]
  ELSE IF fuel = 0 \/ ~Has(fs, parent)
       THEN [loops |-> TRUE, result |-> result, steps |-> steps]
       ELSE LET newCurrent == parent
                newParent == fs[parent].parent
            IN GetRootWalk(fs, newCurrent, newParent,
                           IF newCurrent = newParent THEN current ELSE result,
                           steps + 1, fuel - 1)

\* get_root(folder_id) -> (Option<FolderV2>, String); loops = TRUE when the
\* call never returns (the transaction then fails on gas exhaustion).
GetRoot(fs, folder_id) ==
  LET w == IF ~Has(fs, folder_id)
           THEN [loops |-> FALSE, result |-> "", steps |-> 0]
           ELSE GetRootWalk(fs, folder_id, fs[folder_id].parent, "", 0, WalkFuel)
  IN [loops |-> w.loops,
      id |-> w.result,
      steps |-> w.steps,
      node |-> IF Has(fs, w.result) THEN {fs[w.result]} ELSE None]

\* verify_accessible accepting any existing grant.
VerifyAccessible_AnyGrant(sd, root, folder_id, account_id) ==
  IF root = None THEN FALSE
  ELSE LET owner == The(root).parent
           key == ShareDocId(owner, account_id, folder_id)
       IN IF owner = account_id THEN TRUE
          ELSE IF key \in DOMAIN sd THEN sd[key].permission >= 1
          ELSE FALSE

\* verify_accessible accepting a permission-2 grant of the owner on any target.
VerifyAccessible_AnyTarget(sd, root, folder_id, account_id) ==
  IF root = None THEN FALSE
  ELSE LET owner == The(root).parent
       IN IF owner = account_id THEN TRUE
          ELSE \E t \in Ids \cup FileIdIn :
                 /\ ShareDocId(owner, account_id, t) \in DOMAIN sd
                 /\ sd[ShareDocId(owner, account_id, t)].permission = 2

\* verify_accessible(root_folder, folder_id, account_id): TRUE iff no assert fails.
VerifyAccessible(sd, root, folder_id, account_id) ==
  IF root = None THEN FALSE
  ELSE LET owner == The(root).parent
           key == ShareDocId(owner, account_id, folder_id)
       IN IF owner = account_id THEN TRUE
          ELSE IF key \in DOMAIN sd THEN sd[key].permission = 2
          ELSE FALSE

\* validate_folder without the folder-id check.
ValidateFolder_NoFolderCheck(id) == id \notin users

\* validate_folder(id): TRUE iff no assert fails.
ValidateFolder(id) == id \notin users /\ ~Has(folders, id)

\* validate_file(id)
ValidateFile(id) == ~Has(files, id)

\* validate_user(account_id, owner_id)
ValidateUser(account_id, owner_id) == account_id = owner_id

\* validate_folder_type that only checks that the root was found.
ValidateFolderType_FoundOnly(root, t) == root # None

\* validate_folder_type(root_folder, t)
ValidateFolderType(root, t) ==
  root # None /\ The(root).folder_type # NoType /\ The(root).folder_type = t

Fail3(op, c, a1, a2, a3, perm) ==
  /\ lastOp' = [op |-> op, caller |-> c, a1 |-> a1, a2 |-> a2, a3 |-> a3,
                perm |-> perm, ok |-> FALSE]
  /\ UNCHANGED <<users, folders, files, shared_docs, shared_doc_of_user, set_storage>>

Done3(op, c, a1, a2, a3, perm) ==
  lastOp' = [op |-> op, caller |-> c, a1 |-> a1, a2 |-> a2, a3 |-> a3,
             perm |-> perm, ok |-> TRUE]

Fail(op, c, a1, a2) == Fail3(op, c, a1, a2, "", 0)

Done(op, c, a1, a2) == Done3(op, c, a1, a2, "", 0)

\* sign_up, signed by c
SignUp(c) ==
  /\ users' = users \cup {c}
  /\ folders' = Put(folders, c, FolderV2(c, NoType, "none", c))
  /\ Done("sign_up", c, c, "")
  /\ UNCHANGED <<files, shared_docs, shared_doc_of_user, set_storage>>

\* create_folder_v2(_id, _name, _parent, _password, _type, _), signed by c
CreateFolderOK(c, id, parent) ==
  /\ ValidateFolder(id)
  /\ parent # c =>
       LET gr == GetRoot(folders, parent)
       IN ~gr.loops /\ VerifyAccessible(shared_docs, gr.node, gr.id, c)

\* create_folder_v2 that inserts the new folder even when the parent is missing.
CreateFolder_Dangling(c, id, parent, pw, ty) ==
  IF ~CreateFolderOK(c, id, parent)
  THEN Fail("create_folder", c, id, parent)
  ELSE
    LET honored == parent = c /\ ty # NoType
        folder_type == IF honored THEN ty ELSE NoType
        folder_password == IF honored /\ ty = 2 THEN pw ELSE "none"
    IN /\ folders' =
            Put(IF Has(folders, parent)
                THEN [folders EXCEPT ![parent].children = Append(@, id)]
                ELSE folders,
                id, FolderV2(parent, folder_type, folder_password, c))
       /\ Done("create_folder", c, id, parent)
       /\ UNCHANGED <<users, files, shared_docs, shared_doc_of_user, set_storage>>

CreateFolder(c, id, parent, pw, ty) ==
  IF ~CreateFolderOK(c, id, parent)
  THEN Fail("create_folder", c, id, parent)
  ELSE
    LET honored == parent = c /\ ty # NoType
        folder_type == IF honored THEN ty ELSE NoType
        folder_password == IF honored /\ ty = 2 THEN pw ELSE "none"
    IN /\ IF Has(folders, parent)
          THEN folders' =
                  Put([folders EXCEPT ![parent].children = Append(@, id)],
                      id, FolderV2(parent, folder_type, folder_password, c))
          ELSE UNCHANGED folders
       /\ Done("create_folder", c, id, parent)
       /\ UNCHANGED <<users, files, shared_docs, shared_doc_of_user, set_storage>>

\* create_file_v2(_folder, _file_id, ...), signed by c
CreateFileOK(c, folder, fid) ==
  /\ ValidateFile(fid)
  /\ LET gr == GetRoot(folders, folder)
     IN ~gr.loops /\ VerifyAccessible(shared_docs, gr.node, gr.id, c)

CreateFile(c, folder, fid) ==
  IF ~CreateFileOK(c, folder, fid)
  THEN Fail("create_file", c, folder, fid)
  ELSE
    /\ IF Has(folders, folder)
       THEN /\ folders' = [folders EXCEPT ![folder].files =
                   IF Position(@, fid) = 0 THEN Append(@, fid) ELSE @]
            /\ files' = Put(files, fid, [created_by |-> c])
       ELSE UNCHANGED <<folders, files>>
    /\ Done("create_file", c, folder, fid)
    /\ UNCHANGED <<users, shared_docs, shared_doc_of_user, set_storage>>

\* The storage prefix b's' ++ sha256(owner) of a set created for owner.
SetPrefix(owner) == <<"s", owner>>

\* Empty storage under a prefix nothing was written to yet.
NoSetStorage == [index |-> <<>>, elems |-> <<>>]

\* UnorderedSet::new(prefix) as stored in shared_doc_of_user: the prefix and
\* the length of its elements Vector.
NewSet(prefix) == [prefix |-> prefix, len |-> 0]

\* UnorderedSet::insert(key) on set s: the index lookup prefix+'i'+key is read
\* in storage; if absent, the key is written at index s.len of the Vector.
\* Result: the updated set value and the storage under its prefix.
SetInsert(st, s, key) ==
  LET cur == IF Has(st, s.prefix) THEN st[s.prefix] ELSE NoSetStorage
  IN IF Has(cur.index, key)
     THEN [set |-> s, storage |-> st]
     ELSE [set |-> [s EXCEPT !.len = @ + 1],
           storage |-> Put(st, s.prefix,
                           [index |-> Put(cur.index, key, s.len),
                            elems |-> Put(cur.elems, s.len, key)])]

\* Upsert of a ShareDoc by signer c and insertion of its key in the grantee's
\* set (lines 322-338 of share_file_v2, 373-389 of share_folder_v2).
PutShareDoc(c, key, g, doc) ==
  LET s == IF Has(shared_doc_of_user, g) THEN shared_doc_of_user[g]
           ELSE NewSet(SetPrefix(c))
      r == SetInsert(set_storage, s, key)
  IN /\ shared_docs' = Put(shared_docs, key, doc)
     /\ shared_doc_of_user' = Put(shared_doc_of_user, g, r.set)
     /\ set_storage' = r.storage

\* get_shared_doc_of_user(g): the set's Vector elements 0 .. len-1.
GetSharedDocOfUser(sdou, st, g) ==
  IF Has(sdou, g)
  THEN [i \in 1..sdou[g].len |-> st[sdou[g].prefix].elems[i - 1]]
  ELSE <<>>

\* share_file_v2 without the self-share assert.
ShareFileOK_NoSelfCheck(c, fid, g, pf) ==
  /\ LET gr == GetRoot(folders, pf)
     IN /\ ~gr.loops
        /\ VerifyAccessible(shared_docs, gr.node, gr.id, c)
        /\ ValidateFolderType(gr.node, 1)
  /\ Has(folders, pf) => Position(folders[pf].files, fid) # 0

\* share_file_v2(_file_id, _share_with, _parent_folder, _, _permission, _)
ShareFileOK(c, fid, g, pf) ==
  /\ c # g
  /\ LET gr == GetRoot(folders, pf)
     IN /\ ~gr.loops
        /\ VerifyAccessible(shared_docs, gr.node, gr.id, c)
        /\ ValidateFolderType(gr.node, 1)
  /\ Has(folders, pf) => Position(folders[pf].files, fid) # 0

ShareFile(c, fid, g, pf, perm) ==
  IF ~ShareFileOK(c, fid, g, pf)
  THEN Fail3("share_file", c, fid, g, pf, perm)
  ELSE
    /\ PutShareDoc(c, ShareDocId(c, g, fid), g,
                   [doc_id |-> fid, permission |-> perm, doc_type |-> 1])
    /\ Done3("share_file", c, fid, g, pf, perm)
    /\ UNCHANGED <<users, folders, files>>

\* share_folder_v2(_folder_id, _share_with, _, _permission, _)
ShareFolderOK(c, fid, g) ==
  /\ c # g
  /\ LET gr == GetRoot(folders, fid)
     IN /\ ~gr.loops
        /\ gr.id = fid
        /\ VerifyAccessible(shared_docs, gr.node, gr.id, c)
        /\ ValidateFolderType(gr.node, 2)

ShareFolder(c, fid, g, perm) ==
  IF ~ShareFolderOK(c, fid, g)
  THEN Fail3("share_folder", c, fid, g, "", perm)
  ELSE
    /\ PutShareDoc(c, ShareDocId(c, g, fid), g,
                   [doc_id |-> fid, permission |-> perm, doc_type |-> 2])
    /\ Done3("share_folder", c, fid, g, "", perm)
    /\ UNCHANGED <<users, folders, files>>

\* The ownership check shared by remove_file_v2 / remove_folder_v2: only a
\* found root is checked; a missing root is only logged.
RemoveOwnerOK(c, folder_id) ==
  LET gr == GetRoot(folders, folder_id)
  IN /\ ~gr.loops
     /\ gr.node # None => ValidateUser(c, The(gr.node).parent)

\* remove_file_v2(_folder_id, _file_id), signed by c
RemoveFileOK(c, folder, fid) ==
  /\ RemoveOwnerOK(c, folder)
  /\ Has(folders, folder) => Position(folders[folder].files, fid) # 0

\* remove_file_v2 that deletes the FileRecord but does not store the folder.
RemoveFile_KeepListing(c, folder, fid) ==
  IF ~RemoveFileOK(c, folder, fid)
  THEN Fail("remove_file", c, folder, fid)
  ELSE
    /\ IF Has(folders, folder)
       THEN files' = Del(files, fid)
       ELSE UNCHANGED files
    /\ UNCHANGED folders
    /\ Done("remove_file", c, folder, fid)
    /\ UNCHANGED <<users, shared_docs, shared_doc_of_user, set_storage>>

RemoveFile(c, folder, fid) ==
  IF ~RemoveFileOK(c, folder, fid)
  THEN Fail("remove_file", c, folder, fid)
  ELSE
    /\ IF Has(folders, folder)
       THEN /\ folders' = [folders EXCEPT ![folder].files =
                             RemoveAt(@, Position(@, fid))]
            /\ files' = Del(files, fid)
       ELSE UNCHANGED <<folders, files>>
    /\ Done("remove_file", c, folder, fid)
    /\ UNCHANGED <<users, shared_docs, shared_doc_of_user, set_storage>>

\* remove_folder_v2(_folder_id), signed by c
RemoveFolderOK(c, fid) ==
  /\ RemoveOwnerOK(c, fid)
  /\ Has(folders, fid) /\ Has(folders, folders[fid].parent) =>
       Position(folders[folders[fid].parent].children, fid) # 0

\* remove_folder_v2 that detaches the folder without deleting its node.
RemoveFolder_KeepNode(c, fid) ==
  IF ~RemoveFolderOK(c, fid)
  THEN Fail("remove_folder", c, fid, "")
  ELSE
    /\ IF Has(folders, fid) /\ Has(folders, folders[fid].parent)
       THEN LET p == folders[fid].parent
                pf == folders[p]
            IN folders' = Put(folders, p,
                              [pf EXCEPT !.children =
                                 RemoveAt(@, Position(@, fid))])
       ELSE UNCHANGED folders
    /\ Done("remove_folder", c, fid, "")
    /\ UNCHANGED <<users, files, shared_docs, shared_doc_of_user, set_storage>>

RemoveFolder(c, fid) ==
  IF ~RemoveFolderOK(c, fid)
  THEN Fail("remove_folder", c, fid, "")
  ELSE
    /\ IF Has(folders, fid) /\ Has(folders, folders[fid].parent)
       THEN LET p == folders[fid].parent
                pf == folders[p]
            IN folders' = Put(Del(folders, fid), p,
                              [pf EXCEPT !.children =
                                 RemoveAt(@, Position(@, fid))])
       ELSE UNCHANGED folders
    /\ Done("remove_folder", c, fid, "")
    /\ UNCHANGED <<users, files, shared_docs, shared_doc_of_user, set_storage>>

Init ==
  /\ users = {}
  /\ folders = <<>>
  /\ files = <<>>
  /\ shared_docs = <<>>
  /\ shared_doc_of_user = <<>>
  /\ set_storage = <<>>
  /\ lastOp = [op |-> "init", caller |-> "", a1 |-> "", a2 |-> "", a3 |-> "",
               perm |-> 0, ok |-> TRUE]
  /\ calls = 0

Step(bound, Acc, FIds) ==
  LET Par == Acc \cup FIds IN
  /\ calls < bound
  /\ calls' = calls + 1
  /\ \/ \E c \in Acc : SignUp(c)
     \/ \E c \in Acc, id \in FIds, p \in Par, pw \in PasswordIn,
        ty \in TypeIn : CreateFolder(c, id, p, pw, ty)
     \/ \E c \in Acc, f \in Par, fid \in FileIdIn : CreateFile(c, f, fid)
     \/ \E c \in Acc, fid \in FileIdIn, g \in Acc, pf \in Par,
        perm \in PermIn : ShareFile(c, fid, g, pf, perm)
     \/ \E c \in Acc, f \in Par, g \in Acc, perm \in PermIn :
        ShareFolder(c, f, g, perm)
     \/ \E c \in Acc, f \in Par, fid \in FileIdIn : RemoveFile(c, f, fid)
     \/ \E c \in Acc, f \in Par : RemoveFolder(c, f)

Next == Step(MaxCalls, Accounts, FolderIdIn)

Spec == Init /\ [][Next]_vars

NextLong == Step(MaxCallsLong, Accounts, FolderIdIn)

SpecLong == Init /\ [][NextLong]_vars

\* Three signers and one folder id, for sharing by one owner to two grantees.
ShareFolderIdIn == {"f1"}

NextShare == Step(MaxCallsLong, Accounts3, ShareFolderIdIn)

SpecShare == Init /\ [][NextShare]_vars

(***************************************************************************)
(* Tree notions used to state the properties.                              *)
(***************************************************************************)

\* Marker for a parent chain that runs into a missing folder; it is not a
\* String id any caller can use (the empty id "" is a real folder id).
Broken == "<missing>"

\* The id reached from id by following parent k times (Broken once the
\* chain has passed through a missing folder).
RECURSIVE Ancestor(_, _, _)
Ancestor(fs, id, k) ==
  IF k = 0 THEN id
  ELSE IF Has(fs, id) THEN Ancestor(fs, fs[id].parent, k - 1) ELSE Broken

IsSelfLoop(fs, id) == Has(fs, id) /\ fs[id].parent = id

\* Number of parent steps from id to the first self-loop, -1 if none.
TreeDepth(fs, id) ==
  IF \E k \in 0..WalkFuel : IsSelfLoop(fs, Ancestor(fs, id, k))
  THEN CHOOSE k \in 0..WalkFuel : IsSelfLoop(fs, Ancestor(fs, id, k))
                                  /\ \A j \in 0..(k-1) : ~IsSelfLoop(fs, Ancestor(fs, id, j))
  ELSE -1

\* The account whose self-loop root the parent chain of id reaches.
TreeOwner(fs, id) ==
  IF TreeDepth(fs, id) >= 0 THEN Ancestor(fs, id, TreeDepth(fs, id)) ELSE ""

\* Folders whose parent chain passes through f.
Descendants(fs, f) ==
  {d \in DOMAIN fs \ {f} : \E k \in 1..WalkFuel : Ancestor(fs, d, k) = f}

State == <<users, folders, files, shared_docs, shared_doc_of_user, set_storage>>

(***************************************************************************)
(* Claims                                                                  *)
(***************************************************************************)

\* C1: immediately after account A signs up, get_root(A) returns a present
\* node whose id is A and whose parent is A.
C1_Original ==
  lastOp.op = "sign_up" =>
    LET a == lastOp.caller
        gr == GetRoot(folders, a)
    IN ~gr.loops /\ gr.node # None /\ gr.id = a /\ The(gr.node).parent = a

\* C2 (as written): for a folder F at depth d >= 1 below the root of account
\* A, get_root(F) returns A (and A's root node) within d steps.
C2_Original ==
  \A f \in DOMAIN folders :
    TreeDepth(folders, f) >= 1 =>
      LET gr == GetRoot(folders, f)
      IN /\ ~gr.loops
         /\ gr.id = TreeOwner(folders, f)
         /\ gr.node = {folders[TreeOwner(folders, f)]}
         /\ gr.steps <= TreeDepth(folders, f)

\* C2 (amended): for a folder F at depth d >= 1 below the root of account A,
\* get_root(F) returns the first-level ancestor of F (the child of A's root
\* on F's chain, whose parent is A) and its node, within d steps.
C2_RootOfChain ==
  \A f \in DOMAIN folders :
    TreeDepth(folders, f) >= 1 =>
      LET gr == GetRoot(folders, f)
          top == Ancestor(folders, f, TreeDepth(folders, f) - 1)
      IN /\ ~gr.loops
         /\ gr.id = top
         /\ gr.node = {folders[top]}
         /\ folders[top].parent = TreeOwner(folders, f)
         /\ gr.steps <= TreeDepth(folders, f)

C2_Witness ==
  \E f \in DOMAIN folders : TreeDepth(folders, f) >= 2

\* C3: in every reachable state get_root returns for every folder id (it
\* never spins in its while loop).
C3_GetRootTerminates ==
  \A f \in DOMAIN folders : ~GetRoot(folders, f).loops

\* C4: a successful remove_folder(F) deletes F and detaches it from its
\* parent's children, keeps every descendant folder and every file, and
\* get_root on every descendant of F no longer returns a root.
C4_RemoveFolderOrphans ==
  [][ (lastOp'.op = "remove_folder" /\ lastOp'.ok /\ Has(folders, lastOp'.a1)) =>
        LET f == lastOp'.a1
            p == folders[f].parent
        IN /\ ~Has(folders', f)
           /\ Has(folders', p) /\ Position(folders'[p].children, f) = 0
           /\ files' = files
           /\ \A d \in Descendants(folders, f) :
                 /\ Has(folders', d) /\ folders'[d] = folders[d]
                 /\ GetRoot(folders', d).loops ]_vars

C4_Witness ==
  /\ lastOp.op = "remove_folder" /\ lastOp.ok
  /\ \E d \in DOMAIN folders : folders[d].parent = lastOp.a1

\* C5: verify_accessible(Some(R), R, c) on a folder R passes for the owner
\* R.parent, passes for another caller holding a permission-2 ShareDoc under
\* "owner_caller_R", and fails for one holding a permission-1 ShareDoc or none.
C5_VerifyAccessible ==
  \A r \in DOMAIN folders, c \in Accounts :
    LET owner == folders[r].parent
        key == ShareDocId(owner, c, r)
        va == VerifyAccessible(shared_docs, {folders[r]}, r, c)
    IN /\ c = owner => va
       /\ (c # owner /\ key \in DOMAIN shared_docs
           /\ shared_docs[key].permission = 2) => va
       /\ (c # owner /\ (key \notin DOMAIN shared_docs
                          \/ shared_docs[key].permission = 1)) => ~va

C5_Witness ==
  \E r \in DOMAIN folders, c \in Accounts :
    /\ c # folders[r].parent
    /\ ShareDocId(folders[r].parent, c, r) \in DOMAIN shared_docs
    /\ shared_docs[ShareDocId(folders[r].parent, c, r)].permission = 2


\* The state reached in the C6 scenario: alice's Private folder f1 directly
\* under her root holds file1, and alice granted bob permission 2 on file1.
C6_Scenario ==
  /\ "alice" \in users /\ IsSelfLoop(folders, "alice")
  /\ Has(folders, "f1") /\ folders["f1"].parent = "alice"
  /\ folders["f1"].folder_type = 1
  /\ Position(folders["f1"].files, "file1") # 0
  /\ ShareDocId("alice", "bob", "file1") \in DOMAIN shared_docs
  /\ shared_docs[ShareDocId("alice", "bob", "file1")].permission = 2

\* C6 (as written): in the scenario, bob's create_file of a fresh file into
\* f1 succeeds, alice's remove_file(f1, file1) succeeds and bob's fails.
C6_Original ==
  C6_Scenario =>
    /\ \A fid \in FileIdIn : ~Has(files, fid) => CreateFileOK("bob", "f1", fid)
    /\ RemoveFileOK("alice", "f1", "file1")
    /\ ~RemoveFileOK("bob", "f1", "file1")

\* C6 (amended): in the scenario (no grant under key alice_bob_f1), bob's
\* create_file of a fresh file into f1 fails, because the file grant is keyed
\* alice_bob_file1 while the check looks up alice_bob_f1; alice's
\* remove_file(f1, file1) succeeds and bob's fails.
C6_FileGrantNoWrite ==
  (C6_Scenario /\ ShareDocId("alice", "bob", "f1") \notin DOMAIN shared_docs) =>
    /\ \A fid \in FileIdIn : ~Has(files, fid) => ~CreateFileOK("bob", "f1", fid)
    /\ RemoveFileOK("alice", "f1", "file1")
    /\ ~RemoveFileOK("bob", "f1", "file1")

C6_Witness ==
  /\ C6_Scenario
  /\ ShareDocId("alice", "bob", "f1") \notin DOMAIN shared_docs
  /\ \E fid \in FileIdIn : ~Has(files, fid)

\* Caller c owns the tree of folder t, or holds a permission-2 ShareDoc of
\* that owner on a folder of t's parent chain.
AuthorizedFor(c, t) ==
  LET o == TreeOwner(folders, t)
  IN \/ c = o
     \/ \E k \in 0..WalkFuel :
          LET r == Ancestor(folders, t, k)
              key == ShareDocId(o, c, r)
          IN o # "" /\ key \in DOMAIN shared_docs
             /\ shared_docs[key].permission = 2

\* C7: a create_folder (into parent t) or create_file (into folder t) that
\* changes folder or file state is made by the owner of t's tree or by a
\* holder of a permission-2 grant of that owner on t's tree.
C7_CreateGuarded ==
  [][ (lastOp'.op \in {"create_folder", "create_file"}
       /\ <<folders', files'>> # <<folders, files>>) =>
        AuthorizedFor(lastOp'.caller,
                      IF lastOp'.op = "create_folder" THEN lastOp'.a2
                      ELSE lastOp'.a1) ]_vars

\* C8: a remove_file or remove_folder on folder t that changes state is made
\* by the owner of t's tree (the account of the root t's chain reaches).
C8_RemoveOwnerOnly ==
  [][ (lastOp'.op \in {"remove_file", "remove_folder"} /\ State' # State) =>
        lastOp'.caller = TreeOwner(folders, lastOp'.a1) ]_vars

\* C9: create_folder with an id that is a registered account id or an
\* existing folder id fails and changes no table.
C9_CreateFolderDuplicate ==
  [][ (lastOp'.op = "create_folder"
       /\ (lastOp'.a1 \in users \/ Has(folders, lastOp'.a1))) =>
        ~lastOp'.ok /\ State' = State ]_vars

C9_Witness ==
  /\ lastOp.op = "create_folder" /\ ~lastOp.ok
  /\ (lastOp.a1 \in users \/ Has(folders, lastOp.a1))

\* C10: file ids never coincide with folder or account ids, no non-root
\* folder carries a registered account id, and sign_up never takes over an
\* existing non-root folder.
C10_IdsDistinct ==
  /\ [](/\ DOMAIN files \cap (DOMAIN folders \cup users) = {}
        /\ \A f \in DOMAIN folders : ~IsSelfLoop(folders, f) => f \notin users)
  /\ [][ lastOp'.op = "sign_up" =>
           ~(Has(folders, lastOp'.caller) /\ ~IsSelfLoop(folders, lastOp'.caller)) ]_vars


Range(s) == {s[i] : i \in DOMAIN s}

Count(s, x) == Cardinality({i \in DOMAIN s : s[i] = x})

\* C11: re-sharing an already shared (owner, grantee, resource) triple leaves
\* one ShareDoc under owner_grantee_resource carrying the latest permission,
\* and get_shared_doc_of_user(grantee) lists that key exactly once.
C11_ReshareIdempotent ==
  [][ (lastOp'.op \in {"share_file", "share_folder"} /\ lastOp'.ok
       /\ ShareDocId(lastOp'.caller, lastOp'.a2, lastOp'.a1) \in DOMAIN shared_docs) =>
        LET key == ShareDocId(lastOp'.caller, lastOp'.a2, lastOp'.a1)
        IN /\ key \in DOMAIN shared_docs'
           /\ shared_docs'[key].permission = lastOp'.perm
           /\ Count(GetSharedDocOfUser(shared_doc_of_user', set_storage',
                                       lastOp'.a2), key) = 1 ]_vars

\* Keys of the ShareDocs granted to g.
GrantedTo(g) ==
  {k \in DOMAIN shared_docs :
     \E o \in Accounts3, t \in Ids \cup FileIdIn : k = ShareDocId(o, g, t)}

\* C12: get_shared_doc_of_user(g) lists exactly the keys of the ShareDocs
\* granted to g, and what it lists never shrinks.
C12_IndexExact ==
  /\ [](\A g \in Accounts3 :
          Range(GetSharedDocOfUser(shared_doc_of_user, set_storage, g)) = GrantedTo(g))
  /\ [][\A g \in Accounts3 :
          Range(GetSharedDocOfUser(shared_doc_of_user, set_storage, g)) \subseteq
          Range(GetSharedDocOfUser(shared_doc_of_user', set_storage', g))]_vars
\* C13: share_file / share_folder with the grantee equal to the signer
\* always fail and change no table.
C13_NoSelfShare ==
  [][ (lastOp'.op \in {"share_file", "share_folder"}
       /\ lastOp'.caller = lastOp'.a2) =>
        ~lastOp'.ok /\ State' = State ]_vars

C13_Witness ==
  /\ lastOp.op = "share_file" /\ ~lastOp.ok /\ lastOp.caller = lastOp.a2
  /\ LET gr == GetRoot(folders, lastOp.a3)
     IN /\ ~gr.loops /\ gr.node # None
        /\ The(gr.node).parent = lastOp.caller
        /\ The(gr.node).folder_type = 1
        /\ Has(folders, lastOp.a3)
        /\ Position(folders[lastOp.a3].files, lastOp.a1) # 0

\* C14: a successful share_file has a folder whose resolved root is of kind 1;
\* a successful share_folder targets its own resolved root, of kind 2; a
\* failing share call changes no ShareDoc and no index.
C14_ShareKind ==
  [][ /\ (lastOp'.op = "share_file" /\ lastOp'.ok) =>
           LET gr == GetRoot(folders, lastOp'.a3)
           IN gr.node # None /\ The(gr.node).folder_type = 1
      /\ (lastOp'.op = "share_folder" /\ lastOp'.ok) =>
           LET gr == GetRoot(folders, lastOp'.a1)
           IN /\ gr.id = lastOp'.a1
              /\ gr.node # None /\ The(gr.node).folder_type = 2
      /\ (lastOp'.op \in {"share_file", "share_folder"} /\ ~lastOp'.ok) =>
           /\ shared_docs' = shared_docs
           /\ shared_doc_of_user' = shared_doc_of_user
           /\ set_storage' = set_storage ]_vars

C14_Witness ==
  /\ lastOp.op = "share_file" /\ ~lastOp.ok /\ lastOp.caller # lastOp.a2
  /\ LET gr == GetRoot(folders, lastOp.a3)
     IN /\ ~gr.loops /\ gr.node # None
        /\ The(gr.node).parent = lastOp.caller
        /\ The(gr.node).folder_type # 1
\* C15: a folder whose folder_type or folder_password is set is a direct
\* child of its creator's own account root: its parent is the self-loop root
\* of a registered account and equals created_by.
C15_KindOnFirstLevel ==
  \A f \in DOMAIN folders :
    (folders[f].folder_type # NoType \/ folders[f].folder_password # "none") =>
      LET p == folders[f].parent
      IN /\ p \in users /\ IsSelfLoop(folders, p)
         /\ p = folders[f].created_by

\* Number of entries equal to x in the children lists of live folders.
ChildListings(fs, x) ==
  Cardinality(UNION {{<<p, i>> : i \in {j \in DOMAIN fs[p].children : fs[p].children[j] = x}}
                      : p \in DOMAIN fs})

\* C16: every registered account has its root node (id = parent = account),
\* and every live non-root folder appears in exactly one live folder's
\* children list.
C16_TreeListing ==
  /\ \A a \in users : IsSelfLoop(folders, a)
  /\ \A f \in DOMAIN folders : ~IsSelfLoop(folders, f) => ChildListings(folders, f) = 1

\* Number of entries equal to x in the files lists of live folders.
FileListings(fs, x) ==
  Cardinality(UNION {{<<p, i>> : i \in {j \in DOMAIN fs[p].files : fs[p].files[j] = x}}
                      : p \in DOMAIN fs})

\* C17 (as written): every FileRecord is listed in exactly one live folder's
\* files list.
C17_Original ==
  \A x \in DOMAIN files : FileListings(folders, x) = 1

\* C17 (amended): every FileRecord is listed at most once over the live
\* folders' files lists (not at all once remove_folder removed its folder or
\* sign_up overwrote it), and every id listed in a live folder has a
\* FileRecord.
C17_FileListing ==
  /\ \A x \in DOMAIN files : FileListings(folders, x) <= 1
  /\ \A p \in DOMAIN folders : \A i \in DOMAIN folders[p].files :
       Has(files, folders[p].files[i])

C17_Witness ==
  \E x \in DOMAIN files : FileListings(folders, x) = 1
\* A check of the call that only logs: the root (remove_file_v2 and
\* remove_folder_v2) or the folder named by the call (create_folder_v2,
\* share_file_v2, remove_file_v2, remove_folder_v2) is not found.
LogOnlyCheckFailed ==
  \/ lastOp'.op \in {"remove_file", "remove_folder"} /\
       (GetRoot(folders, lastOp'.a1).node = None \/ ~Has(folders, lastOp'.a1))
  \/ lastOp'.op = "create_folder" /\ ~Has(folders, lastOp'.a2)
  \/ lastOp'.op = "share_file" /\ ~Has(folders, lastOp'.a3)

\* C18: each call is atomic: when any of its validation or access checks
\* fails (an assert, or a check that is only logged), none of its writes
\* are committed; and remove_file of a file not listed in the (existing)
\* folder fails.
C18_Atomic ==
  [][ /\ (~lastOp'.ok \/ LogOnlyCheckFailed) => State' = State
      /\ (lastOp'.op = "remove_file" /\ Has(folders, lastOp'.a1)
          /\ Position(folders[lastOp'.a1].files, lastOp'.a2) = 0) => ~lastOp'.ok ]_vars

\* C19: create_folder with a parent that does not exist changes no table.
C19_MissingParentNoop ==
  [][ (lastOp'.op = "create_folder" /\ ~Has(folders, lastOp'.a2)) =>
        State' = State ]_vars

C19_Witness ==
  lastOp.op = "create_folder" /\ lastOp.ok /\ ~Has(folders, lastOp.a2)

\* Folder t lies in the subtree of folder s.
InSubtree(fs, t, s) == \E k \in 0..WalkFuel : Ancestor(fs, t, k) = s

\* C20: a permission-2 share_folder grant on a SharedRoot S of owner o lets
\* the grantee create folders and files anywhere under S; a permission-2
\* share_file grant of o never lets the grantee create folders or files in
\* o's Private subtrees.
C20_GrantScope ==
  \A top \in DOMAIN folders, t \in DOMAIN folders, c \in Accounts :
    LET o == folders[top].parent
        key == ShareDocId(o, c, top)
        firstLevel == IsSelfLoop(folders, o) /\ o # top /\ c # o
                      /\ InSubtree(folders, t, top)
    IN /\ (firstLevel /\ folders[top].folder_type = 2
           /\ key \in DOMAIN shared_docs
           /\ shared_docs[key].permission = 2 /\ shared_docs[key].doc_type = 2) =>
            /\ \A fid \in FileIdIn : ~Has(files, fid) => CreateFileOK(c, t, fid)
            /\ \A id \in FolderIdIn : ValidateFolder(id) => CreateFolderOK(c, id, t)
       /\ (firstLevel /\ folders[top].folder_type = 1
           /\ \E k \in DOMAIN shared_docs :
                /\ shared_docs[k].doc_type = 1 /\ shared_docs[k].permission = 2
                /\ k = ShareDocId(o, c, shared_docs[k].doc_id)) =>
            /\ \A fid \in FileIdIn : ~Has(files, fid) => ~CreateFileOK(c, t, fid)
            /\ \A id \in FolderIdIn : ValidateFolder(id) => ~CreateFolderOK(c, id, t)
====
